---- MODULE Spec2Model ----
(***************************************************************************)
(* CairoService: the versioned record store (database.py), the upload and  *)
(* merge request handlers (app.py) and the merge pipeline (pdf_merger.py). *)
(*                                                                         *)
(* Every database function opens its own connection and runs one SQL       *)
(* statement, so each function is one atomic step; a handler that calls    *)
(* several of them is a sequence of steps that other requests interleave   *)
(* with (Flask serves requests on concurrent threads).                     *)
(***************************************************************************)
EXTENDS Integers, Sequences, FiniteSets, TLC

VARIABLES
    files,          \* rows of table files
    files_seq,      \* AUTOINCREMENT counter of table files (last id given)
    merged_files,   \* rows of table merged_files
    merged_seq,     \* AUTOINCREMENT counter of table merged_files
    disk,           \* the upload and converted folders: path -> NoFile or page count
    up,             \* upload_file requests in flight, per handler thread
    mg,             \* merge_order_pdfs requests in flight, per handler thread
    callers,        \* clients of the record store API (NextSequence then Insert)
    pv              \* a client of get_merge_preview: its call and the results kept

vars == <<files, files_seq, merged_files, merged_seq, disk, up, mg, callers, pv>>

----------------------------------------------------------------------------
(* Bounds of the model *)

\* rows of table files the model lets requests create
MaxFiles == 2
\* rows of table merged_files the model lets requests create
MaxMerged == 2
\* rows the store-API specification lets callers create
MaxStoreFiles == 3
\* requests served at one time
MaxBusy == 2

\* the order numbers and line numbers requests are sent with; the first and
\* last of each are outside the accepted range
OrderInputs == {99999, 123456}
LineInputs == {0, 1, 2, 1000}
Orders == {o \in OrderInputs : 100000 <= o /\ o <= 999999}
Lines == {l \in LineInputs : 1 <= l /\ l <= 999}

\* secure_filename(original_filename) without its extension
Names == {"a"}
\* the orders the callers of the store-API specification use
StoreOrders == {123456, 123457}
Reqs == {1, 2}
Merges == {1, 2}
Callers == {1, 2}

None == <<>>

----------------------------------------------------------------------------
(* The blob folders *)

\* os.path.join(app.config['UPLOAD_FOLDER'], svg_filename)
SvgPath(name) == <<"uploads", name>>

\* os.path.join(app.config['CONVERTED_FOLDER'], pdf_filename)
PdfPath(name) == <<"converted", name>>

MergedName(order_number) ==
    IF order_number = 123456 THEN "merged_123456" ELSE "merged_99999"

\* os.path.join(output_dir, f"merged_{order_number}.pdf")
MergedPath(order_number) == <<"converted", MergedName(order_number)>>

Paths ==
    {SvgPath(n) : n \in Names} \cup {PdfPath(n) : n \in Names}
        \cup {MergedPath(o) : o \in OrderInputs}

\* what disk holds for a path with no file; a file holds its number of pages,
\* 0 for a file that is no readable document
NoFile == -1

\* os.path.exists(path)
Exists(path) == path \in DOMAIN disk /\ disk[path] # NoFile

\* os.path.getsize(path): the model keeps one size per file
GetSize(path) == 1

----------------------------------------------------------------------------
(* database.py: table files *)

SetMax(s) == CHOOSE x \in s : \A y \in s : y <= x

FilesOf(order_number, line_number) ==
    {f \in files : f.order_number = order_number /\ f.line_number = line_number}

\* get_next_sequence_number: SELECT MAX(sequence_number) ... WHERE order_number = ?
\* AND line_number = ?, 0 when there is no row, plus one
NextSeqAnyLine(order_number, line_number) ==
    LET seqs == {f.sequence_number : f \in {g \in files : g.order_number = order_number}}
    IN  (IF seqs = {} THEN 0 ELSE SetMax(seqs)) + 1

get_next_sequence_number(order_number, line_number) ==
    LET seqs == {f.sequence_number : f \in FilesOf(order_number, line_number)}
    IN  (IF seqs = {} THEN 0 ELSE SetMax(seqs)) + 1

NewFileRow(id, order_number, line_number, original_filename, svg_path, file_size, sequence_number) ==
    [id |-> id, order_number |-> order_number, line_number |-> line_number,
     sequence_number |-> sequence_number, original_filename |-> original_filename,
     svg_path |-> svg_path, pdf_path |-> None, status |-> "uploaded",
     file_size |-> file_size]

\* INSERT OR REPLACE in place of INSERT: the row that holds the key is replaced
InsertOrReplaceFileRecord(order_number, line_number, original_filename, svg_path, file_size, sequence_number) ==
    LET old == {f \in files : /\ f.order_number = order_number
                              /\ f.line_number = line_number
                              /\ f.sequence_number = sequence_number}
    IN  [ok |-> TRUE,
         files |-> (files \ old) \cup
                   {NewFileRow(files_seq + 1, order_number, line_number,
                               original_filename, svg_path, file_size,
                               sequence_number)},
         lastrowid |-> files_seq + 1]

\* insert_file_record: the INSERT fails on UNIQUE(order_number, line_number,
\* sequence_number) with sqlite3.IntegrityError and adds nothing; otherwise the
\* row gets the next id, pdf_path NULL and status 'uploaded'
insert_file_record(order_number, line_number, original_filename, svg_path, file_size, sequence_number) ==
    IF \E f \in files : /\ f.order_number = order_number
                        /\ f.line_number = line_number
                        /\ f.sequence_number = sequence_number
    THEN [ok |-> FALSE, files |-> files, lastrowid |-> 0]
    ELSE [ok |-> TRUE,
          files |-> files \cup
                    {NewFileRow(files_seq + 1, order_number, line_number,
                                original_filename, svg_path, file_size,
                                sequence_number)},
          lastrowid |-> files_seq + 1]

\* get_all_files_by_order_line: the rows of the key, ORDER BY sequence_number ASC
RECURSIVE SortBySeq(_)
SortBySeq(rows) ==
    IF rows = {} THEN <<>>
    ELSE LET f == CHOOSE x \in rows : \A y \in rows : x.sequence_number <= y.sequence_number
         IN  <<f>> \o SortBySeq(rows \ {f})

get_all_files_by_order_line(order_number, line_number) ==
    SortBySeq(FilesOf(order_number, line_number))

----------------------------------------------------------------------------
(* Clients of the record store: NextSequence, then Insert with its value *)

IdleCaller ==
    [pc |-> "idle", order_number |-> 0, line_number |-> 0, sequence_number |-> 0,
     result |-> "none", file_id |-> 0]

InFlight == Cardinality({c \in Callers : callers[c].pc = "allocated"})

CallNextSequence(c) ==
    /\ callers[c].pc = "idle"
    /\ Cardinality(files) + InFlight < MaxStoreFiles
    /\ \E o \in StoreOrders, l \in Lines :
         callers' = [callers EXCEPT ![c] =
                       [pc |-> "allocated", order_number |-> o, line_number |-> l,
                        sequence_number |-> get_next_sequence_number(o, l),
                        result |-> "none", file_id |-> 0]]
    /\ UNCHANGED <<pv, files, files_seq, merged_files, merged_seq, disk, up, mg>>

CallInsert(c) ==
    /\ callers[c].pc = "allocated"
    /\ LET r == insert_file_record(callers[c].order_number, callers[c].line_number,
                                   "a", SvgPath("a"), GetSize(SvgPath("a")),
                                   callers[c].sequence_number)
       IN  /\ files' = r.files
           /\ files_seq' = IF r.ok THEN r.lastrowid ELSE files_seq
           /\ callers' = [callers EXCEPT ![c].pc = "done",
                                         ![c].result = IF r.ok THEN "ok" ELSE "IntegrityError",
                                         ![c].file_id = r.lastrowid]
    /\ UNCHANGED <<pv, merged_files, merged_seq, disk, up, mg>>

CallReturn(c) ==
    /\ callers[c].pc = "done"
    /\ callers' = [callers EXCEPT ![c] = IdleCaller]
    /\ UNCHANGED <<pv, files, files_seq, merged_files, merged_seq, disk, up, mg>>

----------------------------------------------------------------------------
(* database.py: the other statements on table files *)

\* get_file_by_order_line_seq: the row of (order, line, sequence), or None
get_file_by_order_line_seq(order_number, line_number, sequence_number) ==
    LET rows == {f \in FilesOf(order_number, line_number) :
                    f.sequence_number = sequence_number}
    IN  IF rows = {} THEN None ELSE CHOOSE f \in rows : TRUE

\* get_file_by_order_line: the row of the key whose sequence_number equals
\* (SELECT MAX(sequence_number) FROM files), the maximum over the whole table
get_file_by_order_line(order_number, line_number) ==
    IF files = {} THEN None
    ELSE get_file_by_order_line_seq(order_number, line_number,
                                    SetMax({f.sequence_number : f \in files}))

\* an UPDATE that sets status alone
UpdateStatusOnly(file_id, pdf_path, status) ==
    {IF f.id = file_id THEN [f EXCEPT !.status = status] ELSE f : f \in files}

\* update_file_conversion: UPDATE files SET pdf_path = ?, status = ? WHERE id = ?
\* (no row with the id: nothing is updated and nothing is raised)
update_file_conversion(file_id, pdf_path, status) ==
    {IF f.id = file_id THEN [f EXCEPT !.pdf_path = pdf_path, !.status = status] ELSE f
        : f \in files}

\* the file ids a client of the store passes to update_file_conversion: the
\* ids rows can have and one no row has
UpdateIds == 1..(MaxStoreFiles + 1)

\* a client calls update_file_conversion as upload_file does after a conversion
\* (app.py lines 172 and 184), with an id of its choice; the function returns
\* without raising whether or not a row has the id
CallUpdate(c) ==
    /\ callers[c].pc = "idle"
    /\ \E id \in UpdateIds, converted \in BOOLEAN :
         /\ files' = IF converted
                      THEN update_file_conversion(id, PdfPath("a"), "converted")
                      ELSE update_file_conversion(id, None, "error")
         /\ callers' = [callers EXCEPT ![c] =
                           [IdleCaller EXCEPT !.pc = "done", !.result = "ok",
                                              !.file_id = id]]
    /\ UNCHANGED <<pv, files_seq, merged_files, merged_seq, disk, up, mg>>

----------------------------------------------------------------------------
(* app.py: upload_file *)

IdleUpload ==
    [pc |-> "idle", order_number |-> 0, line_number |-> 0,
     sequence_number |-> 0, filename |-> "", is_replacement |-> FALSE,
     file_id |-> 0, converted |-> FALSE, status |-> 0, error |-> ""]

DrawingTypes == {"LG", "U1"}

\* the requests the threads are serving; a request goes to the first idle thread
Busy ==
    Cardinality({r \in Reqs : up[r].pc # "idle"})
        + Cardinality({m \in Merges : mg[m].pc # "idle"})

\* lines 93-139: the checks made before anything is read or written; 0 = passed.
\* payload_ok: the JSON body has svg_content, or the form has a file whose name
\* ends in .svg
UploadValidate(payload_ok, order_number, line_number) ==
    IF ~payload_ok THEN 400
    ELSE IF order_number = 0 \/ line_number = 0 THEN 400
    ELSE IF ~(100000 <= order_number /\ order_number <= 999999) THEN 400
    ELSE IF ~(1 <= line_number /\ line_number <= 999) THEN 400
    ELSE 0

\* line 142: sequence_number = drawing_type == 'LG' and 1 or 2
UploadSequence(drawing_type) == IF drawing_type = "LG" THEN 1 ELSE 2

Respond(r, status, error) ==
    up' = [up EXCEPT ![r].pc = "done", ![r].status = status, ![r].error = error]

\* lines 88-162: validation, the sequence number, the informational lookup and
\* the write of the SVG file (one step: nothing another request does between
\* the lookup and the write changes either). A multipart request never assigns
\* drawing_type, so line 142 raises UnboundLocalError, which line 196 turns
\* into a 500.
UploadBegin(r) ==
    /\ up[r].pc = "idle"
    /\ \A q \in Reqs : q < r => up[q].pc # "idle"
    /\ Busy < MaxBusy
    /\ Cardinality(files) + Cardinality({q \in Reqs : up[q].pc = "insert"}) < MaxFiles
    /\ \E is_json \in BOOLEAN, payload_ok \in BOOLEAN, o \in OrderInputs,
          l \in LineInputs, dt \in DrawingTypes, name \in Names :
         LET v == UploadValidate(payload_ok, o, l)
             seq == UploadSequence(dt)
         IN  IF v # 0
             THEN /\ up' = [up EXCEPT ![r] = [IdleUpload EXCEPT
                                !.pc = "done", !.status = v]]
                  /\ disk' = disk
             ELSE IF ~is_json
             THEN /\ up' = [up EXCEPT ![r] = [IdleUpload EXCEPT
                                !.pc = "done", !.status = 500,
                                !.error = "UnboundLocalError"]]
                  /\ disk' = disk
             ELSE /\ up' = [up EXCEPT ![r] = [IdleUpload EXCEPT
                                !.pc = "insert",
                                !.order_number = o, !.line_number = l,
                                !.sequence_number = seq, !.filename = name,
                                !.is_replacement =
                                    (get_file_by_order_line_seq(o, l, seq) # None)]]
                  /\ disk' = [disk EXCEPT ![SvgPath(name)] = 1]
    /\ UNCHANGED <<pv, files, files_seq, merged_files, merged_seq, mg, callers>>

\* line 165: insert_file_record; sqlite3.IntegrityError reaches line 196
UploadInsert(r) ==
    /\ up[r].pc = "insert"
    /\ LET res == insert_file_record(up[r].order_number, up[r].line_number,
                                     up[r].filename, SvgPath(up[r].filename),
                                     GetSize(SvgPath(up[r].filename)),
                                     up[r].sequence_number)
       IN  /\ files' = res.files
           /\ files_seq' = IF res.ok THEN res.lastrowid ELSE files_seq
           /\ IF res.ok
              THEN up' = [up EXCEPT ![r].pc = "convert", ![r].file_id = res.lastrowid]
              ELSE Respond(r, 500, "IntegrityError")
    /\ UNCHANGED <<pv, merged_files, merged_seq, disk, mg, callers>>

\* lines 168-171: convert_svg_to_pdf writes a one-page PDF and returns True, or
\* returns False; which one is the converter's business. A conversion that
\* fails before cairosvg opens write_to leaves the path alone, one that fails
\* while drawing leaves a file there that is no readable PDF.
UploadConvert(r) ==
    /\ up[r].pc = "convert"
    /\ \E ok \in BOOLEAN, opened \in BOOLEAN :
         /\ ok => opened
         /\ up' = [up EXCEPT ![r].pc = "update", ![r].converted = ok]
         /\ disk' = IF ok THEN [disk EXCEPT ![PdfPath(up[r].filename)] = 1]
                    ELSE IF opened THEN [disk EXCEPT ![PdfPath(up[r].filename)] = 0]
                    ELSE disk
    /\ UNCHANGED <<pv, files, files_seq, merged_files, merged_seq, mg, callers>>

\* a handler that records a successful conversion only
UploadUpdateOnSuccess(r) ==
    /\ up[r].pc = "update"
    /\ IF up[r].converted
       THEN /\ files' = update_file_conversion(up[r].file_id, PdfPath(up[r].filename),
                                               "converted")
            /\ Respond(r, 201, "")
       ELSE /\ files' = files
            /\ Respond(r, 500, "")
    /\ UNCHANGED <<pv, files_seq, merged_files, merged_seq, disk, mg, callers>>

\* lines 172-194: update_file_conversion and the response
UploadUpdate(r) ==
    /\ up[r].pc = "update"
    /\ IF up[r].converted
       THEN /\ files' = update_file_conversion(up[r].file_id, PdfPath(up[r].filename),
                                               "converted")
            /\ Respond(r, 201, "")
       ELSE /\ files' = update_file_conversion(up[r].file_id, None, "error")
            /\ Respond(r, 500, "")
    /\ UNCHANGED <<pv, files_seq, merged_files, merged_seq, disk, mg, callers>>

\* the response has been sent; the thread takes the next request
UploadReturn(r) ==
    /\ up[r].pc = "done"
    /\ up' = [up EXCEPT ![r] = IdleUpload]
    /\ UNCHANGED <<pv, files, files_seq, merged_files, merged_seq, disk, mg, callers>>

UploadNext(r) ==
    \/ UploadBegin(r)
    \/ UploadInsert(r)
    \/ UploadConvert(r)
    \/ UploadUpdate(r)
    \/ UploadReturn(r)

----------------------------------------------------------------------------
(* database.py: table merged_files *)

\* get_next_merged_sequence_number: MAX(sequence_number) of the order, plus one
get_next_merged_sequence_number(order_number) ==
    LET seqs == {m.sequence_number :
                    m \in {x \in merged_files : x.order_number = order_number}}
    IN  (IF seqs = {} THEN 0 ELSE SetMax(seqs)) + 1

\* the INSERT of insert_merged_file_record (lines 224-229): it fails on
\* UNIQUE(order_number, sequence_number) with sqlite3.IntegrityError
insert_merged_file_record(order_number, merged_pdf_path, file_size, line_numbers, file_count, sequence_number) ==
    IF \E m \in merged_files : /\ m.order_number = order_number
                               /\ m.sequence_number = sequence_number
    THEN [ok |-> FALSE, merged_files |-> merged_files, lastrowid |-> 0]
    ELSE [ok |-> TRUE,
          merged_files |-> merged_files \cup
              {[id |-> merged_seq + 1, order_number |-> order_number,
                sequence_number |-> sequence_number,
                merged_pdf_path |-> merged_pdf_path, file_size |-> file_size,
                line_numbers |-> line_numbers, file_count |-> file_count,
                status |-> "completed"]},
          lastrowid |-> merged_seq + 1]

----------------------------------------------------------------------------
(* pdf_merger.py *)

\* get_files_by_order: the rows of the order, ORDER BY line_number; rows of one
\* line come in rowid order (the scan of idx_order_line)
RECURSIVE SortByLine(_)
SortByLine(rows) ==
    IF rows = {} THEN <<>>
    ELSE LET f == CHOOSE x \in rows : \A y \in rows :
                      \/ x.line_number < y.line_number
                      \/ (x.line_number = y.line_number /\ x.id <= y.id)
         IN  <<f>> \o SortByLine(rows \ {f})

get_files_by_order(order_number) ==
    SortByLine({f \in files : f.order_number = order_number})

LineInfo(f) ==
    [line_number |-> f.line_number, filename |-> f.original_filename,
     status |-> f.status, pdf_path |-> f.pdf_path]

\* lines 36-47: the entries of the rows whose PDF is (want) or is not available
RECURSIVE FilterAvailable(_, _)
FilterAvailable(rows, want) ==
    IF rows = <<>> THEN <<>>
    ELSE LET f == Head(rows)
             avail == f.pdf_path # None /\ Exists(f.pdf_path)
         IN  (IF avail = want THEN <<LineInfo(f)>> ELSE <<>>)
                 \o FilterAvailable(Tail(rows), want)

\* get_order_summary: every row of the order goes to available_pdfs (pdf_path
\* set and the file exists) or to missing_pdfs; the sorts by line number are
\* stable and the rows already come by line number
get_order_summary(order_number) ==
    LET rows == get_files_by_order(order_number)
        available == FilterAvailable(rows, TRUE)
        missing == FilterAvailable(rows, FALSE)
    IN  [order_number |-> order_number, total_files |-> Len(rows),
         available_pdfs |-> available, missing_pdfs |-> missing,
         all_line_numbers |-> [i \in 1..Len(rows) |-> rows[i].line_number],
         available_count |-> Len(available), missing_count |-> Len(missing)]

\* get_pdf_page_count / len(PdfReader(path).pages)
PageCount(path) == IF Exists(path) THEN disk[path] ELSE 0

\* validate_pdf_files: the paths that do not exist or have no page
InvalidPaths(pdf_paths) ==
    {pdf_paths[i] : i \in {j \in 1..Len(pdf_paths) : PageCount(pdf_paths[j]) = 0}}

\* a filter of available_pdfs in place of the walk over line_numbers: the
\* available entries whose line is requested, in line order, each once
RECURSIVE SelectRequested(_, _)
SelectRequested(line_numbers, available) ==
    IF available = <<>> THEN <<>>
    ELSE (IF \E i \in 1..Len(line_numbers) : line_numbers[i] = Head(available).line_number
          THEN <<Head(available)>> ELSE <<>>)
             \o SelectRequested(line_numbers, Tail(available))

ResolveLinesSorted(line_numbers, available) ==
    LET lost == {i \in 1..Len(line_numbers) :
                    \A j \in 1..Len(available) :
                        available[j].line_number # line_numbers[i]}
    IN  IF lost # {}
        THEN [ok |-> FALSE, pdfs |-> <<>>,
              line |-> line_numbers[CHOOSE i \in lost : \A j \in lost : i <= j]]
        ELSE [ok |-> TRUE, pdfs |-> SelectRequested(line_numbers, available), line |-> 0]

\* lines 125-133: the first available entry of each requested line, in the
\* caller's order; the first requested line without one fails the plan
RECURSIVE ResolveLines(_, _)
ResolveLines(line_numbers, available) ==
    IF line_numbers = <<>> THEN [ok |-> TRUE, pdfs |-> <<>>, line |-> 0]
    ELSE LET hits == {i \in 1..Len(available) :
                         available[i].line_number = Head(line_numbers)}
         IN  IF hits = {}
             THEN [ok |-> FALSE, pdfs |-> <<>>, line |-> Head(line_numbers)]
             ELSE LET first == available[CHOOSE i \in hits : \A j \in hits : i <= j]
                      rest == ResolveLines(Tail(line_numbers), available)
                  IN  IF rest.ok
                      THEN [ok |-> TRUE, pdfs |-> <<first>> \o rest.pdfs, line |-> 0]
                      ELSE rest

\* the pages of the distinct documents, a document counted once
SumDistinctPages(pdf_paths) ==
    LET paths == {pdf_paths[i] : i \in 1..Len(pdf_paths)}
        RECURSIVE Total(_)
        Total(ps) == IF ps = {} THEN 0
                     ELSE LET q == CHOOSE x \in ps : TRUE
                          IN  (IF Exists(q) THEN disk[q] ELSE 0) + Total(ps \ {q})
    IN  Total(paths)

RECURSIVE SumPages(_)
SumPages(pdf_paths) ==
    IF pdf_paths = <<>> THEN 0
    ELSE PageCount(Head(pdf_paths)) + SumPages(Tail(pdf_paths))

\* merge_pdfs_by_order up to the write: what it returns and what it would write
merge_pdfs_by_order(order_number, line_numbers) ==
    LET summary == get_order_summary(order_number)
        resolved == IF line_numbers # <<>>
                    THEN ResolveLines(line_numbers, summary.available_pdfs)
                    ELSE [ok |-> TRUE, pdfs |-> summary.available_pdfs, line |-> 0]
        pdf_paths == [i \in 1..Len(resolved.pdfs) |-> resolved.pdfs[i].pdf_path]
        Fail(msg) == [success |-> FALSE, output_path |-> None, error |-> msg,
                      plan |-> <<>>, pages |-> 0]
    IN  IF summary.total_files = 0 THEN Fail("No files found")
        ELSE IF summary.available_count = 0 THEN Fail("No PDF files available")
        ELSE IF ~resolved.ok THEN Fail("Line number not found")
        ELSE IF InvalidPaths(pdf_paths) # {} THEN Fail("Invalid or corrupted PDFs")
        ELSE IF pdf_paths = <<>> THEN Fail("No valid PDFs found")
        ELSE [success |-> TRUE, output_path |-> MergedPath(order_number),
              error |-> "",
              plan |-> [i \in 1..Len(resolved.pdfs) |-> resolved.pdfs[i].line_number],
              pages |-> SumPages(pdf_paths)]

\* line_numbers.index(line): the first position of the line in the list
IndexOf(line_numbers, line) ==
    CHOOSE i \in 1..Len(line_numbers) :
        /\ line_numbers[i] = line
        /\ \A j \in 1..(i - 1) : line_numbers[j] # line

RemoveAt(s, i) == SubSeq(s, 1, i - 1) \o SubSeq(s, i + 1, Len(s))

\* pdfs_to_merge.sort(key = position in line_numbers): a stable sort
RECURSIVE SortByIndex(_, _)
SortByIndex(pdfs, line_numbers) ==
    IF pdfs = <<>> THEN <<>>
    ELSE LET Key(i) == IndexOf(line_numbers, pdfs[i].line_number)
             first == CHOOSE i \in 1..Len(pdfs) :
                          /\ \A j \in 1..Len(pdfs) : Key(i) <= Key(j)
                          /\ \A j \in 1..(i - 1) : Key(j) # Key(i)
         IN  <<pdfs[first]>> \o SortByIndex(RemoveAt(pdfs, first), line_numbers)

RECURSIVE SumDetailPages(_)
SumDetailPages(details) ==
    IF details = <<>> THEN 0
    ELSE Head(details).pages + SumDetailPages(Tail(details))

\* get_merge_preview: with line_numbers, the available entries whose line is
\* in the list, sorted by the line's position in the list; without, every
\* available entry; then the page count of each
get_merge_preview(order_number, line_numbers) ==
    LET summary == get_order_summary(order_number)
        pdfs_to_merge ==
            IF Len(line_numbers) > 0
            THEN SortByIndex(SelectRequested(line_numbers, summary.available_pdfs),
                             line_numbers)
            ELSE summary.available_pdfs
        merge_details ==
            [i \in 1..Len(pdfs_to_merge) |->
                [line_number |-> pdfs_to_merge[i].line_number,
                 filename |-> pdfs_to_merge[i].filename,
                 pages |-> PageCount(pdfs_to_merge[i].pdf_path)]]
    IN  [order_number |-> order_number,
         files_to_merge |-> Len(merge_details),
         total_pages |-> SumDetailPages(merge_details),
         merge_details |-> merge_details,
         missing_pdfs |-> summary.missing_pdfs]

----------------------------------------------------------------------------
(* app.py: merge_order_pdfs *)

\* the line_numbers lists a merge request is sent with; <<>> is "all"
LineLists ==
    {<<>>} \cup {<<a>> : a \in Lines} \cup {<<a, b>> : a \in Lines, b \in Lines}

IdleMerge ==
    [pc |-> "idle", order_number |-> 0, specific_lines |-> <<>>, plan |-> <<>>,
     merged_lines |-> <<>>, sequence_number |-> 0, merged_id |-> 0,
     status |-> 0, error |-> ""]

\* lines 363-379: merge_specific_pdfs or merge_pdfs_by_order, which writes the
\* output file; a failure is answered with 400. The route takes any integer
\* as order_number.
MergeBegin(m) ==
    /\ mg[m].pc = "idle"
    /\ \A x \in Merges : x < m => mg[x].pc # "idle"
    /\ Busy < MaxBusy
    /\ Cardinality(merged_files)
          + Cardinality({x \in Merges : mg[x].pc \in {"record", "insert"}}) < MaxMerged
    /\ \E o \in OrderInputs, lines \in LineLists :
         LET res == merge_pdfs_by_order(o, lines)
         IN  IF res.success
             THEN /\ mg' = [mg EXCEPT ![m] = [IdleMerge EXCEPT
                                !.pc = "record", !.order_number = o,
                                !.specific_lines = lines, !.plan = res.plan]]
                  /\ disk' = [disk EXCEPT ![res.output_path] = res.pages]
             ELSE /\ mg' = [mg EXCEPT ![m] = [IdleMerge EXCEPT
                                !.pc = "done", !.order_number = o,
                                !.specific_lines = lines,
                                !.status = 400, !.error = res.error]]
                  /\ disk' = disk
    /\ UNCHANGED <<pv, files, files_seq, merged_files, merged_seq, up, callers>>

\* lines 381-393 and database.py line 218: the lines recorded as merged are the
\* requested ones, or the available lines of a second get_order_summary; then
\* the next merged sequence number is read. The two reads are one step: a
\* write to files or disk between them commutes with the second read, a write
\* to merged_files with the first.
MergeRecord(m) ==
    /\ mg[m].pc = "record"
    /\ LET summary == get_order_summary(mg[m].order_number)
           merged_lines ==
               IF mg[m].specific_lines # <<>> THEN mg[m].specific_lines
               ELSE [i \in 1..Len(summary.available_pdfs) |->
                        summary.available_pdfs[i].line_number]
       IN  mg' = [mg EXCEPT ![m].pc = "insert",
                            ![m].merged_lines = merged_lines,
                            ![m].sequence_number =
                                get_next_merged_sequence_number(mg[m].order_number)]
    /\ UNCHANGED <<pv, files, files_seq, merged_files, merged_seq, disk, up, callers>>

\* database.py lines 224-229 and app.py lines 404-415: the INSERT; an
\* IntegrityError is answered with 500
MergeInsert(m) ==
    /\ mg[m].pc = "insert"
    /\ LET res == insert_merged_file_record(
                      mg[m].order_number, MergedPath(mg[m].order_number),
                      GetSize(MergedPath(mg[m].order_number)), mg[m].merged_lines,
                      Len(mg[m].merged_lines), mg[m].sequence_number)
       IN  /\ merged_files' = res.merged_files
           /\ merged_seq' = IF res.ok THEN res.lastrowid ELSE merged_seq
           /\ mg' = [mg EXCEPT ![m].pc = "done",
                               ![m].merged_id = res.lastrowid,
                               ![m].status = IF res.ok THEN 201 ELSE 500,
                               ![m].error = IF res.ok THEN "" ELSE "IntegrityError"]
    /\ UNCHANGED <<pv, files, files_seq, disk, up, callers>>

MergeReturn(m) ==
    /\ mg[m].pc = "done"
    /\ mg' = [mg EXCEPT ![m] = IdleMerge]
    /\ UNCHANGED <<pv, files, files_seq, merged_files, merged_seq, disk, up, callers>>

MergeNext(m) ==
    \/ MergeBegin(m)
    \/ MergeRecord(m)
    \/ MergeInsert(m)
    \/ MergeReturn(m)

----------------------------------------------------------------------------
(* A client of get_merge_preview *)

EmptyPreview ==
    [order_number |-> 0, files_to_merge |-> 0, total_pages |-> 0,
     merge_details |-> <<>>, missing_pdfs |-> <<>>]

IdlePreview ==
    [pc |-> "idle", order_number |-> 0, line_numbers |-> <<>>,
     preview |-> EmptyPreview, again |-> EmptyPreview]

\* the preview that also runs the merge it previews
PreviewAndMerge ==
    /\ pv.pc = "idle"
    /\ \E o \in OrderInputs, lines \in LineLists :
         LET res == merge_pdfs_by_order(o, lines)
         IN  /\ pv' = [IdlePreview EXCEPT !.pc = "shown", !.order_number = o,
                                         !.line_numbers = lines,
                                         !.preview = get_merge_preview(o, lines)]
             /\ disk' = IF res.success THEN [disk EXCEPT ![res.output_path] = res.pages]
                        ELSE disk
    /\ UNCHANGED <<files, files_seq, merged_files, merged_seq, up, mg, callers>>

\* get_merge_preview is called with an order and a list of lines and its
\* result is kept (admin_portal.py lines 466-469, "Generate Preview", is its
\* caller in the repository). The reads get_merge_preview makes (the rows,
\* then the page count of each PDF) are one step.
PreviewCall ==
    /\ pv.pc = "idle"
    /\ \E o \in OrderInputs, lines \in LineLists :
         pv' = [IdlePreview EXCEPT !.pc = "shown", !.order_number = o,
                                   !.line_numbers = lines,
                                   !.preview = get_merge_preview(o, lines)]
    /\ UNCHANGED <<files, files_seq, merged_files, merged_seq, disk, up, mg, callers>>

\* "Generate Preview" is pressed again with the same selection
PreviewAgain ==
    /\ pv.pc = "shown"
    /\ pv' = [pv EXCEPT !.pc = "repeated",
                        !.again = get_merge_preview(pv.order_number, pv.line_numbers)]
    /\ UNCHANGED <<files, files_seq, merged_files, merged_seq, disk, up, mg, callers>>

\* the page is left
PreviewReturn ==
    /\ pv.pc = "repeated"
    /\ pv' = IdlePreview
    /\ UNCHANGED <<files, files_seq, merged_files, merged_seq, disk, up, mg, callers>>

PreviewNext == PreviewCall \/ PreviewAgain \/ PreviewReturn

----------------------------------------------------------------------------
Init ==
    /\ files = {}
    /\ files_seq = 0
    /\ merged_files = {}
    /\ merged_seq = 0
    /\ disk = [p \in Paths |-> NoFile]
    /\ up = [r \in Reqs |-> IdleUpload]
    /\ mg = [m \in Merges |-> IdleMerge]
    /\ callers = [c \in Callers |-> IdleCaller]
    /\ pv = IdlePreview

StoreNext ==
    \E c \in Callers : CallNextSequence(c) \/ CallInsert(c) \/ CallReturn(c)

SpecStore == Init /\ [][StoreNext]_vars

Next ==
    \/ \E r \in Reqs : UploadNext(r)
    \/ \E m \in Merges : MergeNext(m)

Spec == Init /\ [][Next]_vars

\* the record store under clients that also mark rows converted or error
MarkNext ==
    \/ StoreNext
    \/ \E c \in Callers : CallUpdate(c)

SpecMark == Init /\ [][MarkNext]_vars

\* upload requests and the preview of the admin portal; the two previews of
\* one visit of the page are made with no upload step between them
PreviewSpecNext ==
    \/ pv.pc = "idle" /\ \E r \in Reqs : UploadNext(r)
    \/ PreviewNext

SpecPreview == Init /\ [][PreviewSpecNext]_vars

\* upload requests alone; a thread that has taken a request runs it to its
\* response, and convert_svg_to_pdf returns
UploadsNext == \E r \in Reqs : UploadNext(r)

SpecUpload ==
    /\ Init
    /\ [][UploadsNext]_vars
    /\ \A r \in Reqs :
          WF_vars(UploadInsert(r) \/ UploadConvert(r) \/ UploadUpdate(r) \/ UploadReturn(r))

----------------------------------------------------------------------------
(* The record store under its callers *)

StoreKeys == StoreOrders \X Lines

\* C1: when several callers run NextSequence and then Insert for one key, in
\* any interleaving, no two of them hold the same sequence value for that key
\* and every one of the inserts is recorded.
C1_ConcurrentAllocation ==
    /\ \A c1, c2 \in Callers :
         (/\ c1 # c2
          /\ callers[c1].pc = "allocated"
          /\ callers[c2].pc = "allocated"
          /\ callers[c1].order_number = callers[c2].order_number
          /\ callers[c1].line_number = callers[c2].line_number)
         => callers[c1].sequence_number # callers[c2].sequence_number
    /\ \A c \in Callers :
         callers[c].pc = "done"
         => /\ callers[c].result = "ok"
            /\ \E f \in files : /\ f.id = callers[c].file_id
                                /\ f.sequence_number = callers[c].sequence_number

\* C4: a key with no row gets sequence 1; after N inserts made with the values
\* NextSequence returned, NextSequence returns N+1 and GetAllVersions returns
\* the N rows of the key with sequences 1..N in ascending order, whatever rows
\* other keys have.
C4_NextSequenceCounts ==
    \A k \in StoreKeys :
        LET n == Cardinality(FilesOf(k[1], k[2]))
            all == get_all_files_by_order_line(k[1], k[2])
        IN  /\ get_next_sequence_number(k[1], k[2]) = n + 1
            /\ Len(all) = n
            /\ \A i \in 1..n : /\ all[i] \in FilesOf(k[1], k[2])
                               /\ all[i].sequence_number = i

\* one key holds two versions while another key holds a row of its own
C4_Witness ==
    \E k1, k2 \in StoreKeys :
        /\ k1 # k2
        /\ Cardinality(FilesOf(k1[1], k1[2])) = 2
        /\ Cardinality(FilesOf(k2[1], k2[2])) = 1
        /\ get_next_sequence_number(k1[1], k1[2]) = 3
        /\ get_next_sequence_number(k2[1], k2[2]) = 2

\* C6: an Insert for an (order, line, sequence) that a row already holds fails
\* with the conflict error and leaves table files as it was.
C6_InsertConflict ==
    [][\A c \in Callers :
          (/\ callers[c].pc = "allocated"
           /\ callers'[c].pc = "done"
           /\ \E f \in files : /\ f.order_number = callers[c].order_number
                               /\ f.line_number = callers[c].line_number
                               /\ f.sequence_number = callers[c].sequence_number)
          => /\ callers'[c].result = "IntegrityError"
             /\ files' = files
             /\ files_seq' = files_seq]_vars

\* a caller's insert has hit the row another caller recorded under the same key
C6_Witness ==
    \E c \in Callers :
        /\ callers[c].pc = "done"
        /\ callers[c].result = "IntegrityError"
        /\ \E f \in files : /\ f.order_number = callers[c].order_number
                            /\ f.line_number = callers[c].line_number
                            /\ f.sequence_number = callers[c].sequence_number

----------------------------------------------------------------------------
(* The request handlers *)

Keys == Orders \X Lines

UploadKey(r) == <<up[r].order_number, up[r].line_number>>

\* C2: two upload requests for one fresh (order, line) that are processed
\* concurrently (neither found a row at its lookup, and the key holds no row of
\* another request) both record a row, with the sequences 1 and 2.
C2_ConcurrentUploads ==
    \A r1, r2 \in Reqs :
        (/\ r1 # r2
         /\ up[r1].pc = "done" /\ up[r2].pc = "done"
         /\ up[r1].order_number # 0 /\ up[r2].order_number # 0
         /\ UploadKey(r1) = UploadKey(r2)
         /\ ~up[r1].is_replacement /\ ~up[r2].is_replacement
         /\ \A f \in FilesOf(up[r1].order_number, up[r1].line_number) :
                f.id \in {up[r1].file_id, up[r2].file_id})
        => /\ up[r1].file_id # 0 /\ up[r2].file_id # 0
           /\ up[r1].error # "IntegrityError" /\ up[r2].error # "IntegrityError"
           /\ {up[r1].sequence_number, up[r2].sequence_number} = {1, 2}

\* C3: the sequence numbers of every key that has a row are exactly 1..k, and
\* of two rows of a key the one created later has the larger sequence.
C3_SequencesContiguous ==
    \A k \in Keys :
        LET rows == FilesOf(k[1], k[2])
        IN  /\ {f.sequence_number : f \in rows} = 1..Cardinality(rows)
            /\ \A f, g \in rows : f.id < g.id => f.sequence_number < g.sequence_number

\* C5: GetLatest of a key is the row of the key with the largest sequence among
\* GetAllVersions of the key, and is absent only when the key has no row.
C5_LatestIsMaximum ==
    \A k \in Keys :
        LET all == get_all_files_by_order_line(k[1], k[2])
        IN  get_file_by_order_line(k[1], k[2])
                = IF all = <<>> THEN None ELSE all[Len(all)]

\* C7: an insert that conflicts because of an allocation race is retried with a
\* new sequence, so no upload that found no row at its lookup and no merge ends
\* with the conflict error.
C7_RaceRecovered ==
    /\ \A r \in Reqs :
         ~(up[r].pc = "done" /\ ~up[r].is_replacement
              /\ up[r].error = "IntegrityError")
    /\ \A m \in Merges :
         ~(mg[m].pc = "done" /\ mg[m].error = "IntegrityError")

\* C8: merged-sequence allocation is atomic per order: two merge requests of
\* one order never hold the same allocated sequence, every merge that wrote its
\* output is recorded under a sequence of its own, and the merged sequences of
\* an order are exactly 1..k.
C8_MergedAllocationAtomic ==
    /\ \A m1, m2 \in Merges :
         (/\ m1 # m2
          /\ mg[m1].pc = "insert" /\ mg[m2].pc = "insert"
          /\ mg[m1].order_number = mg[m2].order_number)
         => mg[m1].sequence_number # mg[m2].sequence_number
    /\ \A m \in Merges :
         (mg[m].pc = "done" /\ mg[m].plan # <<>>)
         => \E x \in merged_files : /\ x.id = mg[m].merged_id
                                    /\ x.order_number = mg[m].order_number
                                    /\ x.sequence_number = mg[m].sequence_number
    /\ \A o \in OrderInputs :
         LET rows == {x \in merged_files : x.order_number = o}
         IN  {x.sequence_number : x \in rows} = 1..Cardinality(rows)

\* C9: an upload for a key that already has rows succeeds: its insert adds one
\* row whose sequence is greater than every sequence of the key and leaves the
\* rows that were there as they were.
C9_UploadAddsVersion ==
    [][\A r \in Reqs :
          (/\ up[r].pc = "insert"
           /\ up'[r].pc # "insert"
           /\ FilesOf(up[r].order_number, up[r].line_number) # {})
          => /\ up'[r].pc = "convert"
             /\ files \subseteq files'
             /\ \E f \in files' \ files :
                  /\ files' = files \cup {f}
                  /\ \A g \in FilesOf(up[r].order_number, up[r].line_number) :
                        f.sequence_number > g.sequence_number]_vars

\* C10: for every order, available and missing together hold one entry per
\* distinct line of the order, each line once.
C10_SummaryPartitionsLines ==
    \A o \in Orders :
        LET summary == get_order_summary(o)
            both == summary.available_pdfs \o summary.missing_pdfs
            lines == {f.line_number : f \in {g \in files : g.order_number = o}}
        IN  /\ Len(summary.available_pdfs) + Len(summary.missing_pdfs)
                  = Cardinality(lines)
            /\ \A l \in lines :
                  Cardinality({i \in 1..Len(both) : both[i].line_number = l}) = 1

----------------------------------------------------------------------------
(* The order summary and the merge pipeline *)

RowsOfOrder(o) == {f \in files : f.order_number = o}

LinesOfOrder(o) == {f.line_number : f \in RowsOfOrder(o)}

\* the version of the line with the largest sequence
LatestOf(o, l) ==
    CHOOSE f \in FilesOf(o, l) : \A g \in FilesOf(o, l) : g.sequence_number <= f.sequence_number

LineNumbersOf(infos) == [i \in 1..Len(infos) |-> infos[i].line_number]

StrictlyAscending(s) == \A i, j \in 1..Len(s) : i < j => s[i] < s[j]

SeqRange(s) == {s[i] : i \in 1..Len(s)}

\* thread m takes a merge request in this step: merge_pdfs_by_order runs on the
\* state before the step
MergeBegan(m) == mg[m].pc = "idle" /\ mg'[m].pc # "idle"

PlanningErrors == {"No files found", "No PDF files available", "Line number not found"}

\* C11: the summary puts a line in available exactly when the latest version
\* of the line has a pdf_path that is set and whose file exists, and in missing
\* otherwise, whatever the older versions of the line have.
C11_AvailableIffLatest ==
    \A o \in Orders :
        LET summary == get_order_summary(o)
        IN  \A l \in LinesOfOrder(o) :
                LET latest == LatestOf(o, l)
                    ready == latest.pdf_path # None /\ Exists(latest.pdf_path)
                IN  /\ (l \in SeqRange(LineNumbersOf(summary.available_pdfs))) <=> ready
                    /\ (l \in SeqRange(LineNumbersOf(summary.missing_pdfs))) <=> ~ready

\* C12: get_files_by_order returns one row per distinct line of the order, the
\* latest version of that line, in ascending line order.
C12_OneLatestRowPerLine ==
    \A o \in Orders :
        LET rows == get_files_by_order(o)
        IN  /\ Len(rows) = Cardinality(LinesOfOrder(o))
            /\ StrictlyAscending([i \in 1..Len(rows) |-> rows[i].line_number])
            /\ \A i \in 1..Len(rows) : rows[i] = LatestOf(o, rows[i].line_number)

\* C13: a merge request without line_numbers concatenates exactly the available
\* lines of the summary, in strictly ascending line order with no line twice,
\* and fails at planning only when the order has no available artifact.
C13_MergeAllPlan ==
    [][\A m \in Merges :
          (MergeBegan(m) /\ mg'[m].specific_lines = <<>>)
          => LET avail == LineNumbersOf(get_order_summary(mg'[m].order_number).available_pdfs)
             IN  /\ mg'[m].pc = "record"
                    => /\ mg'[m].plan = avail
                       /\ StrictlyAscending(mg'[m].plan)
                 /\ (mg'[m].error \in PlanningErrors) <=> (avail = <<>>)]_vars

\* C14: a merge request whose line_numbers are all available is planned in the
\* caller's order, element by element, repeats included, and the output holds
\* the pages of the planned documents, one document per requested entry.
C14_CallerOrderPreserved ==
    [][\A m \in Merges :
          LET lines == mg'[m].specific_lines
              summary == get_order_summary(mg'[m].order_number)
              avail == summary.available_pdfs
              PathOf(l) == avail[CHOOSE i \in 1..Len(avail) :
                                    /\ avail[i].line_number = l
                                    /\ \A j \in 1..(i - 1) : avail[j].line_number # l].pdf_path
          IN  (/\ MergeBegan(m)
               /\ lines # <<>>
               /\ SeqRange(lines) \subseteq SeqRange(LineNumbersOf(avail)))
              => /\ mg'[m].error \notin PlanningErrors
                 /\ mg'[m].pc = "record"
                    => /\ mg'[m].plan = lines
                       /\ disk'[MergedPath(mg'[m].order_number)]
                              = SumPages([i \in 1..Len(lines) |-> PathOf(lines[i])])]_vars

\* a request for lines in descending order, and one for the same line twice,
\* have been merged as asked
C14_Witness ==
    \E m \in Merges :
        /\ mg[m].pc = "record"
        /\ mg[m].specific_lines \in {<<2, 1>>, <<1, 1>>}
        /\ mg[m].plan = mg[m].specific_lines
        /\ disk[MergedPath(mg[m].order_number)] = 2

\* C15: a merge request with line_numbers of which one is not available, for an
\* order that has rows, fails with the line-not-found error for a requested
\* line that is not available; it writes no file and records nothing.
C15_UnresolvedLineFails ==
    [][\A m \in Merges :
          LET lines == mg'[m].specific_lines
              o == mg'[m].order_number
              avail == get_order_summary(o).available_pdfs
              res == ResolveLines(lines, avail)
          IN  (/\ MergeBegan(m)
               /\ lines # <<>>
               /\ RowsOfOrder(o) # {}
               /\ ~(SeqRange(lines) \subseteq SeqRange(LineNumbersOf(avail))))
              => /\ mg'[m].pc = "done"
                 /\ mg'[m].error = "Line number not found"
                 /\ ~res.ok
                 /\ res.line \in SeqRange(lines) \ SeqRange(LineNumbersOf(avail))
                 /\ disk' = disk
                 /\ merged_files' = merged_files]_vars

\* C16: the no-files error is given exactly when the order has no row, in both
\* modes; the no-PDF-available error only without line_numbers, when the order
\* has rows and none is available; with line_numbers and an order that has
\* rows and none available, the error is the line-not-found error.
C16_PlanningErrorKinds ==
    [][\A m \in Merges :
          LET lines == mg'[m].specific_lines
              o == mg'[m].order_number
              avail == get_order_summary(o).available_pdfs
          IN  MergeBegan(m)
              => /\ (mg'[m].error = "No files found") <=> (RowsOfOrder(o) = {})
                 /\ (mg'[m].error = "No PDF files available")
                        => (lines = <<>> /\ RowsOfOrder(o) # {} /\ avail = <<>>)
                 /\ (lines # <<>> /\ RowsOfOrder(o) # {} /\ avail = <<>>)
                        => mg'[m].error = "Line number not found"]_vars

\* C17: a merge request that fails (at validation, at the write or at the
\* insert of its row) has written no output file and has added no row to
\* merged_files.
C17_AllOrNothing ==
    [][\A m \in Merges :
          (mg[m].pc # "done" /\ mg'[m].pc = "done" /\ mg'[m].status # 201)
          => /\ merged_files' = merged_files
             /\ disk' = disk
             /\ mg'[m].plan = <<>>]_vars

\* C18: the row a merge request records has line_numbers equal to the lines
\* of the documents it concatenated, in that order, and file_count equal to
\* their number, whatever uploads did between the merge and the insert.
C18_RecordMatchesPlan ==
    \A m \in Merges :
        (mg[m].pc = "done" /\ mg[m].status = 201)
        => \E x \in merged_files :
               /\ x.id = mg[m].merged_id
               /\ x.line_numbers = mg[m].plan
               /\ x.file_count = Len(mg[m].plan)

\* C19: no step changes a row of merged_files or the file its merged_pdf_path
\* names, and a row added for an order has a sequence above those the order
\* had.
C19_MergedRecordImmutable ==
    [][/\ \A x \in merged_files :
             /\ x \in merged_files'
             /\ disk'[x.merged_pdf_path] = disk[x.merged_pdf_path]
       /\ \A y \in merged_files' \ merged_files :
             \A x \in merged_files :
                 x.order_number = y.order_number
                     => x.sequence_number < y.sequence_number]_vars

\* C20: no two rows of files share svg_path or a pdf_path that is set, and no
\* two rows of merged_files share merged_pdf_path.
C20_PathsDistinct ==
    /\ \A f, g \in files :
          f # g => /\ f.svg_path # g.svg_path
                   /\ (f.pdf_path # None => f.pdf_path # g.pdf_path)
    /\ \A x, y \in merged_files :
          x # y => x.merged_pdf_path # y.merged_pdf_path

----------------------------------------------------------------------------
(* The preview *)

\* the portal asks for a preview in this step
PreviewCalled == pv.pc = "idle" /\ pv'.pc = "shown"

PreviewLines(preview) ==
    [i \in 1..Len(preview.merge_details) |-> preview.merge_details[i].line_number]

\* a preview result that reports a failure
PreviewFailed(preview) == "error" \in DOMAIN preview

\* C21: a preview changes no row of files or merged_files and no file, and a
\* second preview with the same arguments, made with no change of state after
\* the first, returns what the first returned.
C21_PreviewReadsOnly ==
    /\ [][pv' # pv
             => /\ files' = files /\ files_seq' = files_seq
                /\ merged_files' = merged_files /\ merged_seq' = merged_seq
                /\ disk' = disk]_vars
    /\ [](pv.pc = "repeated" => pv.again = pv.preview)

\* an order with an available PDF has been previewed twice and no merged file
\* exists
C21_Witness ==
    /\ pv.pc = "repeated"
    /\ pv.preview.files_to_merge >= 1
    /\ pv.again.files_to_merge >= 1
    /\ merged_files = {}
    /\ \A o \in OrderInputs : ~Exists(MergedPath(o))

\* C22: the preview shows the plan the merge would concatenate (same lines,
\* same order, same multiplicity) when the merge plans successfully, and fails
\* when the merge fails for an order without rows or for a requested line that
\* is not available.
C22_PreviewMatchesPlanner ==
    [][PreviewCalled
          => LET mp == merge_pdfs_by_order(pv'.order_number, pv'.line_numbers)
             IN  /\ mp.success => PreviewLines(pv'.preview) = mp.plan
                 /\ mp.error \in {"No files found", "Line number not found"}
                        => PreviewFailed(pv'.preview)]_vars

----------------------------------------------------------------------------
(* The status of a row under the clients of the store *)

\* C23: a row is created with status uploaded; a row that is uploaded stays so
\* or becomes converted or error; a row that is converted or error keeps its
\* status and its pdf_path in every later step.
C23_StatusTransitions ==
    [][/\ \A f \in files : \E g \in files' :
             /\ g.id = f.id
             /\ f.status # "uploaded" => (g.status = f.status /\ g.pdf_path = f.pdf_path)
             /\ g.status \in {f.status, "converted", "error"}
       /\ \A g \in files' :
             (\A f \in files : f.id # g.id) => g.status = "uploaded"]_vars

\* C24: update_file_conversion called with an id no row has fails with the
\* not-found error and changes no row.
C24_UnknownIdFails ==
    [][\A c \in Callers :
          (/\ callers[c].pc = "idle"
           /\ callers'[c].pc = "done"
           /\ \A f \in files : f.id # callers'[c].file_id)
          => /\ callers'[c].result = "NotFoundError"
             /\ files' = files]_vars

----------------------------------------------------------------------------
(* The request handlers, continued *)

InDomain(o) == 100000 <= o /\ o <= 999999

\* C25: a request with an order_number outside 100000..999999 is rejected by
\* the range check, before the store is read, and no row of files or
\* merged_files has an order_number or line_number outside its range.
C25_DomainChecked ==
    /\ \A f \in files : InDomain(f.order_number) /\ 1 <= f.line_number /\ f.line_number <= 999
    /\ \A x \in merged_files : InDomain(x.order_number)
    /\ \A m \in Merges :
          (mg[m].pc = "done" /\ ~InDomain(mg[m].order_number))
          => mg[m].error = "order_number must be a 6-digit number"

RECURSIVE UnitsOf(_)
UnitsOf(paths) ==
    IF paths = <<>> THEN 0
    ELSE (IF Exists(Head(paths)) THEN disk[Head(paths)] ELSE 0) + UnitsOf(Tail(paths))

\* C26: the output file of a successful merge has as many pages as its planned
\* sources have together, a source planned twice counted twice.
C26_OutputPagesAreSum ==
    [][\A m \in Merges :
          LET lines == mg'[m].specific_lines
              avail == get_order_summary(mg'[m].order_number).available_pdfs
              FirstOf(l) == avail[CHOOSE i \in 1..Len(avail) :
                                     /\ avail[i].line_number = l
                                     /\ \A j \in 1..(i - 1) : avail[j].line_number # l]
              sources == IF lines = <<>>
                         THEN [i \in 1..Len(avail) |-> avail[i].pdf_path]
                         ELSE [i \in 1..Len(lines) |-> FirstOf(lines[i]).pdf_path]
          IN  (MergeBegan(m) /\ mg'[m].pc = "record")
              => /\ Len(sources) = Len(mg'[m].plan)
                 /\ disk'[MergedPath(mg'[m].order_number)] = UnitsOf(sources)]_vars

\* a merge of all lines has written the two pages of an order with two lines
C26_Witness ==
    \E m \in Merges :
        /\ mg[m].pc = "record"
        /\ mg[m].specific_lines = <<>>
        /\ mg[m].plan = <<1, 2>>
        /\ disk[MergedPath(mg[m].order_number)] = 2

\* C27: every row of merged_files has line_numbers that are not empty and
\* file_count equal to their number, and the row a request recorded names only
\* lines whose PDF the request validated and concatenated.
C27_MergedLinesWereMerged ==
    /\ \A x \in merged_files :
          x.line_numbers # <<>> /\ x.file_count = Len(x.line_numbers)
    /\ \A m \in Merges :
          (mg[m].pc = "done" /\ mg[m].status = 201)
          => \A x \in merged_files :
                 x.id = mg[m].merged_id
                 => SeqRange(x.line_numbers) \subseteq SeqRange(mg[m].plan)

\* C28: a multipart upload that passes the checks is handled as the JSON
\* upload is: it reaches its insert, and does not end with an unassigned
\* variable.
C28_MultipartAccepted ==
    \A r \in Reqs : ~(up[r].pc = "done" /\ up[r].error = "UnboundLocalError")

----------------------------------------------------------------------------
(* Upload requests alone *)

RowOf(id) == CHOOSE f \in files : f.id = id

\* C29: the row of an upload that has answered is converted or error, not
\* uploaded, and every row inserted leaves status uploaded.
C29_UploadedIsLeft ==
    /\ [](\A r \in Reqs :
            (up[r].pc = "done" /\ up[r].file_id # 0)
            => RowOf(up[r].file_id).status \in {"converted", "error"})
    /\ \A id \in 1..MaxFiles :
          (\E f \in files : f.id = id)
              ~> (\E f \in files : f.id = id /\ f.status # "uploaded")

\* an upload whose conversion failed has answered, its row marked error
C29_Witness ==
    \E r \in Reqs :
        /\ up[r].pc = "done"
        /\ up[r].file_id # 0
        /\ ~up[r].converted
        /\ RowOf(up[r].file_id).status = "error"

\* C30: a row has pdf_path set exactly when its status is converted.
C30_PathIffConverted ==
    \A f \in files : (f.pdf_path # None) <=> (f.status = "converted")

\* a converted row and a row marked error at the same time
C30_Witness ==
    \E f, g \in files :
        /\ f.status = "converted" /\ f.pdf_path # None
        /\ g.status = "error" /\ g.pdf_path = None

====
